---- MODULE Spec2Model ----
(***************************************************************************)
(* Model of measured's metric-group composition and encoding protocol      *)
(* (core/src/metric/group.rs): the Encoding / MetricGroup / MetricEncoding *)
(* forwarding implementations for &G, &mut E, ComposedGroup and            *)
(* WithNamespace, driven by a collection harness shaped like the           *)
(* tests::http_errors fixture.                                             *)
(*                                                                         *)
(* Strings are sequences of one-character strings.  A target is a record   *)
(* tree (WithNamespace / &mut wrappers around a TextEncoder); a write      *)
(* returns the target with the TextEncoder at its bottom updated.          *)
(***************************************************************************)
EXTENDS Naturals, Sequences, FiniteSets

VARIABLES group, values, text_encoder, last, prev

vars == <<group, values, text_encoder, last, prev>>

-----------------------------------------------------------------------------
(* Bounds *)

\* largest number of nodes (leaves, ComposedGroup, WithNamespace, &G) of a tree
MaxNodes == 6

\* label combinations of the labelled metric (the fixture has 3 kinds x 6 routes)
NumSeries == 2

\* total number of increments applied to the metric storage
MaxIncs == 1

\* largest value factor held by the storage at collection time
MaxValue == 1

\* largest tree collected repeatedly
MaxPassNodes == 3

\* longest buffer (in written records) the forwarding probes extend
MaxBuf == 6

-----------------------------------------------------------------------------
(* Data: names, prefixes, leaves *)

\* the namespace prefixes a WithNamespace node may carry
Prefixes == { <<"h", "_">>, <<"d">> }

\* a base metric name (a MetricNameEncoder that is a plain string)
MetricName(s) == [kind |-> "MetricName", s |-> s]

\* the struct WithNamespace { namespace, inner }: one data shape for a
\* namespaced group, a namespaced target and a namespaced name
WithNamespace(namespace, inner) ==
  [kind |-> "WithNamespace", namespace |-> namespace, inner |-> inner]

\* &mut E
RefMut(enc) == [kind |-> "RefMut", inner |-> enc]

\* &G
Ref(g) == [kind |-> "Ref", inner |-> g]

\* ComposedGroup(A, B)
ComposedGroup(a, b) == [kind |-> "ComposedGroup", a |-> a, b |-> b]

\* the unlabelled counter of the fixture
events_total ==
  [kind |-> "Metric", id |-> 1, name |-> MetricName(<<"e">>),
   help |-> "help text", mtype |-> "counter", series |-> 1]

\* the labelled counter vector of the fixture
errors ==
  [kind |-> "Metric", id |-> 2, name |-> MetricName(<<"r">>),
   help |-> "more help wow", mtype |-> "counter", series |-> NumSeries]

Leaves == {events_total, errors}

\* the storage cells: one per metric and label combination
Cells == UNION {{<<m.id, s>> : s \in 1..m.series} : m \in Leaves}

RECURSIVE GroupsOfSize(_)
\* the group trees with exactly n nodes
GroupsOfSize(n) ==
  IF n = 1 THEN Leaves
  ELSE {Ref(g) : g \in GroupsOfSize(n - 1)}
         \cup {WithNamespace(p, g) : p \in Prefixes, g \in GroupsOfSize(n - 1)}
         \cup UNION {{ComposedGroup(a, b) :
                        a \in GroupsOfSize(i), b \in GroupsOfSize(n - 1 - i)} :
                     i \in 1..(n - 2)}

Groups == UNION {GroupsOfSize(n) : n \in 1..MaxNodes}

RECURSIVE SumOver(_, _)
SumOver(f, S) ==
  IF S = {} THEN 0
  ELSE LET c == CHOOSE x \in S : TRUE IN f[c] + SumOver(f, S \ {c})

-----------------------------------------------------------------------------
(* The text encoder and the name encoder (collaborators of group.rs) *)

\* TextEncoder::new()
TextEncoder_new == [kind |-> "TextEncoder", buf |-> <<>>]

Write(op, name, text, label, value) ==
  [op |-> op, name |-> name, text |-> text, label |-> label, value |-> value]

RECURSIVE encode_text(_)
\* mutant: the name encoder puts "_" between a namespace and what follows
encode_text_separator(name) ==
  IF name.kind = "WithNamespace"
  THEN name.namespace \o <<"_">> \o encode_text(name.inner)
  ELSE name.s

\* MetricNameEncoder: render a name, namespaces first
encode_text(name) ==
  IF name.kind = "WithNamespace"
  THEN name.namespace \o encode_text(name.inner)
  ELSE name.s

\* Encoding::write_help for the text encoder: "# HELP <name> <help>"
TextEncoder_write_help(enc, name, help) ==
  [enc EXCEPT !.buf = Append(@, Write("help", name, help, 0, 0))]

\* MetricEncoding::write_type for the text encoder: "# TYPE <name> <type>"
TextEncoder_write_type(mtype, name, enc) ==
  [enc EXCEPT !.buf = Append(@, Write("type", name, mtype, 0, 0))]

\* MetricEncoding::collect_into for the text encoder: one value line per
\* label combination, in label order
TextEncoder_collect_into(m, vals, name, enc) ==
  [enc EXCEPT !.buf =
     @ \o [s \in 1..m.series |-> Write("value", name, "", s, vals[<<m.id, s>>])]]

-----------------------------------------------------------------------------
(* group.rs: the forwarding implementations *)

RECURSIVE Encoding_write_help(_, _, _)
RECURSIVE MetricEncoding_write_type(_, _, _)
RECURSIVE MetricEncoding_collect_into(_, _, _, _)
RECURSIVE MetricGroup_collect_into(_, _, _)

\* mutant: the borrowed handle forwards the help write twice
RefMut_write_help_twice(self, name, help) ==
  [self EXCEPT !.inner =
     Encoding_write_help(Encoding_write_help(self.inner, name, help), name, help)]

\* impl Encoding for &mut E
RefMut_write_help(self, name, help) ==
  [self EXCEPT !.inner = Encoding_write_help(self.inner, name, help)]

\* mutant: the namespaced target forwards the help write twice
WithNamespace_write_help_twice(self, name, help) ==
  LET n == WithNamespace(self.namespace, name)
  IN  [self EXCEPT !.inner =
         Encoding_write_help(Encoding_write_help(self.inner, n, help), n, help)]

\* impl Encoding for WithNamespace<E>
WithNamespace_write_help(self, name, help) ==
  [self EXCEPT !.inner =
     Encoding_write_help(self.inner, WithNamespace(self.namespace, name), help)]

\* trait Encoding: write_help, resolved on the target's type
Encoding_write_help(self, name, help) ==
  CASE self.kind = "TextEncoder" -> TextEncoder_write_help(self, name, help)
    [] self.kind = "RefMut" -> RefMut_write_help(self, name, help)
    [] self.kind = "WithNamespace" -> WithNamespace_write_help(self, name, help)

\* mutant: the type line is forwarded without the namespace
WithNamespace_write_type_unprefixed(mtype, name, enc) ==
  [enc EXCEPT !.inner = MetricEncoding_write_type(mtype, name, enc.inner)]

\* impl MetricEncoding<WithNamespace<E>> for M: write_type
WithNamespace_write_type(mtype, name, enc) ==
  [enc EXCEPT !.inner =
     MetricEncoding_write_type(mtype, WithNamespace(enc.namespace, name), enc.inner)]

\* mutant: the borrowed handle does not forward the type line
RefMut_write_type_dropped(mtype, name, enc) == enc

\* impl MetricEncoding<&mut E> for M: write_type
RefMut_write_type(mtype, name, enc) ==
  [enc EXCEPT !.inner = MetricEncoding_write_type(mtype, name, enc.inner)]

\* trait MetricEncoding: write_type, resolved on the target's type
MetricEncoding_write_type(mtype, name, enc) ==
  CASE enc.kind = "TextEncoder" -> TextEncoder_write_type(mtype, name, enc)
    [] enc.kind = "RefMut" -> RefMut_write_type(mtype, name, enc)
    [] enc.kind = "WithNamespace" -> WithNamespace_write_type(mtype, name, enc)

\* mutant: the value lines are forwarded without the namespace
WithNamespace_metric_collect_into_unprefixed(m, vals, name, enc) ==
  [enc EXCEPT !.inner = MetricEncoding_collect_into(m, vals, name, enc.inner)]

\* mutant: a metric whose first series is still zero is not forwarded
WithNamespace_metric_collect_into_skip_zero(m, vals, name, enc) ==
  IF vals[<<m.id, 1>>] = 0 THEN enc
  ELSE [enc EXCEPT !.inner =
          MetricEncoding_collect_into(m, vals, WithNamespace(enc.namespace, name),
                                      enc.inner)]

\* impl MetricEncoding<WithNamespace<E>> for M: collect_into
WithNamespace_metric_collect_into(m, vals, name, enc) ==
  [enc EXCEPT !.inner =
     MetricEncoding_collect_into(m, vals, WithNamespace(enc.namespace, name),
                                 enc.inner)]

\* impl MetricEncoding<&mut E> for M: collect_into
RefMut_metric_collect_into(m, vals, name, enc) ==
  [enc EXCEPT !.inner = MetricEncoding_collect_into(m, vals, name, enc.inner)]

\* trait MetricEncoding: collect_into, resolved on the target's type
MetricEncoding_collect_into(m, vals, name, enc) ==
  CASE enc.kind = "TextEncoder" -> TextEncoder_collect_into(m, vals, name, enc)
    [] enc.kind = "RefMut" -> RefMut_metric_collect_into(m, vals, name, enc)
    [] enc.kind = "WithNamespace" ->
         WithNamespace_metric_collect_into(m, vals, name, enc)

\* impl MetricGroup<E> for &G
Ref_collect_into(self, enc, vals) ==
  MetricGroup_collect_into(self.inner, enc, vals)

\* mutant: the right group is collected before the left one
ComposedGroup_collect_into_swapped(self, enc, vals) ==
  LET enc1 == MetricGroup_collect_into(self.b, enc, vals)
  IN  MetricGroup_collect_into(self.a, enc1, vals)

\* mutant: self.0 is collected twice, self.1 never
ComposedGroup_collect_into_first_twice(self, enc, vals) ==
  LET enc1 == MetricGroup_collect_into(self.a, enc, vals)
  IN  MetricGroup_collect_into(self.a, enc1, vals)

\* impl MetricGroup<E> for ComposedGroup<A, B>
ComposedGroup_collect_into(self, enc, vals) ==
  LET enc1 == MetricGroup_collect_into(self.a, enc, vals)
  IN  MetricGroup_collect_into(self.b, enc1, vals)

\* mutant: the inner group is collected into enc itself, not into the
\* namespaced target
WithNamespace_collect_into_unwrapped(self, enc, vals) ==
  MetricGroup_collect_into(self.inner, enc, vals)

\* impl MetricGroup<E> for WithNamespace<G>: the inner group is collected
\* into WithNamespace { namespace, inner: enc } with enc : &mut E, and the
\* borrow ends on return
WithNamespace_collect_into(self, enc, vals) ==
  LET w == MetricGroup_collect_into(
             self.inner, WithNamespace(self.namespace, RefMut(enc)), vals)
  IN  w.inner.inner

\* a metric field of a derived group: help, then type, then the value lines
Metric_collect_into(self, enc, vals) ==
  LET enc1 == Encoding_write_help(enc, self.name, self.help)
      enc2 == MetricEncoding_write_type(self.mtype, self.name, enc1)
  IN  MetricEncoding_collect_into(self, vals, self.name, enc2)

\* trait MetricGroup: collect_into, resolved on the group's type
MetricGroup_collect_into(self, enc, vals) ==
  CASE self.kind = "Metric" -> Metric_collect_into(self, enc, vals)
    [] self.kind = "Ref" -> Ref_collect_into(self, enc, vals)
    [] self.kind = "ComposedGroup" -> ComposedGroup_collect_into(self, enc, vals)
    [] self.kind = "WithNamespace" -> WithNamespace_collect_into(self, enc, vals)

-----------------------------------------------------------------------------
(* The harness: setup, storage updates, collection passes *)

NoVals == [c \in Cells |-> 0]

\* storage contents at collection time: series s of a metric holds k * s
Storage == {[c \in Cells |-> k * c[2]] : k \in 0..MaxValue}

NoCall == [op |-> "new", vals |-> NoVals, before |-> <<>>, arg |-> events_total,
           prefix |-> <<>>, alt |-> <<>>]

NoPass == [valid |-> FALSE, group |-> events_total, vals |-> NoVals, out |-> <<>>]

\* the tree is built once; the encoder is new
Init ==
  /\ group \in Groups
  /\ values \in Storage
  /\ text_encoder = TextEncoder_new
  /\ last = NoCall
  /\ prev = NoPass

\* repeated passes over a small tree whose counters start at zero
InitPasses ==
  /\ group \in UNION {GroupsOfSize(n) : n \in 1..MaxPassNodes}
  /\ values = NoVals
  /\ text_encoder = TextEncoder_new
  /\ last = NoCall
  /\ prev = NoPass

\* the forwarding rules exercised on an encoder, no tree involved
InitEnc ==
  /\ group = events_total
  /\ values \in Storage
  /\ text_encoder = TextEncoder_new
  /\ last = NoCall
  /\ prev = NoPass

\* application code increments one storage cell between passes
Inc(c) ==
  /\ SumOver(values, Cells) < MaxIncs
  /\ values' = [values EXCEPT ![c] = @ + 1]
  /\ UNCHANGED <<group, text_encoder, last, prev>>

\* one collection pass: a new TextEncoder, then group.collect_into(&mut enc)
Collect ==
  /\ text_encoder' = MetricGroup_collect_into(group, TextEncoder_new, values)
  /\ last' = [NoCall EXCEPT !.op = "collect", !.vals = values]
  /\ prev' = IF last.op = "collect"
             THEN [valid |-> TRUE, group |-> group, vals |-> last.vals,
                   out |-> text_encoder.buf]
             ELSE prev
  /\ UNCHANGED <<group, values>>

\* a later write to the same encoder through a borrowed handle:
\* (&mut text_encoder).write_help(name, help)
WriteHelpBorrowed(m) ==
  /\ last.op = "collect"
  /\ text_encoder' = Encoding_write_help(RefMut(text_encoder), m.name, m.help).inner
  /\ last' = [NoCall EXCEPT !.op = "write_help", !.vals = last.vals,
                            !.before = text_encoder.buf, !.arg = m]
  /\ UNCHANGED <<group, values, prev>>

\* M::write_type(name, enc) then m.collect_into(.., name, enc) on a wrapped target
WriteMetric(m, enc, vals) ==
  MetricEncoding_collect_into(m, vals, m.name,
                              MetricEncoding_write_type(m.mtype, m.name, enc))

\* a metric written under a namespace through a borrowed handle: into
\* WithNamespace<&mut E>, and (on an equal encoder) into &mut WithNamespace<E>
WriteMetricForwarded(m, p) ==
  /\ Len(text_encoder.buf) < MaxBuf
  /\ LET nsOfRef == WriteMetric(m, WithNamespace(p, RefMut(text_encoder)), values)
         refOfNs == WriteMetric(m, RefMut(WithNamespace(p, text_encoder)), values)
     IN  /\ text_encoder' = nsOfRef.inner.inner
         /\ last' = [NoCall EXCEPT !.op = "metric", !.vals = values,
                                   !.before = text_encoder.buf, !.arg = m,
                                   !.prefix = p, !.alt = refOfNs.inner.inner.buf]
  /\ UNCHANGED <<group, values, prev>>

\* let mut text_encoder = TextEncoder::new()
NewEncoder ==
  /\ text_encoder' = TextEncoder_new
  /\ last' = NoCall
  /\ UNCHANGED <<group, values, prev>>

Next ==
  \/ Collect
  \/ \E m \in Leaves : WriteHelpBorrowed(m)

NextPasses ==
  \/ \E c \in Cells : Inc(c)
  \/ Collect

NextEnc ==
  \/ \E m \in Leaves, p \in Prefixes : WriteMetricForwarded(m, p)
  \/ NewEncoder

Spec == Init /\ [][Next]_vars

SpecPasses == InitPasses /\ [][NextPasses]_vars

SpecEnc == InitEnc /\ [][NextEnc]_vars

-----------------------------------------------------------------------------
(* Reference definitions used by the properties *)

\* what collecting g alone into a new encoder writes
Render(g, vals) == MetricGroup_collect_into(g, TextEncoder_new, vals).buf

\* the written records with every name put under prefix p
Namespaced(p, buf) ==
  [i \in 1..Len(buf) |-> [buf[i] EXCEPT !.name = WithNamespace(p, @)]]

\* the written records with every name rendered to text
Text(buf) == [i \in 1..Len(buf) |-> [buf[i] EXCEPT !.name = encode_text(@)]]

\* the written records with every rendered name preceded by the string p
Prepended(p, buf) ==
  [i \in 1..Len(buf) |-> [buf[i] EXCEPT !.name = p \o encode_text(@)]]

\* the written records without their numeric values
NamesTypes(buf) == [i \in 1..Len(buf) |-> [buf[i] EXCEPT !.value = 0]]

RECURSIVE BaseName(_)
\* the base name under all namespaces
BaseName(name) == IF name.kind = "WithNamespace" THEN BaseName(name.inner) ELSE name

RECURSIVE NamespacesOf(_)
\* the namespaces a written name carries, outermost first
NamespacesOf(name) ==
  IF name.kind = "WithNamespace"
  THEN <<name.namespace>> \o NamespacesOf(name.inner)
  ELSE <<>>

RECURSIVE Occurrences(_, _)
\* how many times leaf m occurs in tree g
Occurrences(m, g) ==
  CASE g.kind = "Metric" -> IF g = m THEN 1 ELSE 0
    [] g.kind = "ComposedGroup" -> Occurrences(m, g.a) + Occurrences(m, g.b)
    [] OTHER -> Occurrences(m, g.inner)

RECURSIVE LeafPaths(_, _)
\* the leaves of g in left-to-right order, each with the namespaces of the
\* WithNamespace nodes on its path from the root, in root-to-leaf order
LeafPaths(g, path) ==
  CASE g.kind = "Metric" -> << [leaf |-> g, path |-> path] >>
    [] g.kind = "ComposedGroup" -> LeafPaths(g.a, path) \o LeafPaths(g.b, path)
    [] g.kind = "WithNamespace" -> LeafPaths(g.inner, Append(path, g.namespace))
    [] g.kind = "Ref" -> LeafPaths(g.inner, path)

\* the records one leaf writes: help, type, then one value per label combination
LeafBlock(m, vals) ==
  <<Write("help", m.name, m.help, 0, 0), Write("type", m.name, m.mtype, 0, 0)>>
    \o [s \in 1..m.series |-> Write("value", m.name, "", s, vals[<<m.id, s>>])]

\* name wrapped in the namespaces of path, the first of them outermost
RECURSIVE WrapPath(_, _)
WrapPath(path, name) ==
  IF path = <<>> THEN name
  ELSE WithNamespace(Head(path), WrapPath(Tail(path), name))

\* what the leaves lp write, each under the namespaces of its own path
RECURSIVE ExpectedWrites(_, _)
ExpectedWrites(lp, vals) ==
  IF lp = <<>> THEN <<>>
  ELSE LET block == LeafBlock(Head(lp).leaf, vals)
       IN  [i \in 1..Len(block) |->
              [block[i] EXCEPT !.name = WrapPath(Head(lp).path, @)]]
             \o ExpectedWrites(Tail(lp), vals)

Count(buf, op, base) ==
  Cardinality({i \in 1..Len(buf) : buf[i].op = op /\ BaseName(buf[i].name) = base})

Collected == last.op = "collect"

-----------------------------------------------------------------------------
(* Properties *)

\* C1 (order preservation): after collecting ComposedGroup(A, B) into a new
\* encoder, the encoder holds exactly what collecting A alone writes followed
\* by what collecting B alone writes.
OrderPreservation ==
  (Collected /\ group.kind = "ComposedGroup") =>
     text_encoder.buf = Render(group.a, last.vals) \o Render(group.b, last.vals)

OrderPreservationWitness ==
  /\ Collected
  /\ group.kind = "ComposedGroup"
  /\ group.a.kind = "WithNamespace"
  /\ Render(group.a, last.vals) # Render(group.b, last.vals)
  /\ Len(text_encoder.buf) > Len(Render(group.a, last.vals))

\* C2 (associativity): collecting ComposedGroup(ComposedGroup(A, B), C) writes
\* exactly what collecting ComposedGroup(A, ComposedGroup(B, C)) writes.
Associativity ==
  (Collected /\ group.kind = "ComposedGroup" /\ group.a.kind = "ComposedGroup") =>
     text_encoder.buf =
       Render(ComposedGroup(group.a.a, ComposedGroup(group.a.b, group.b)), last.vals)

AssociativityWitness ==
  /\ Collected
  /\ group.kind = "ComposedGroup"
  /\ group.a.kind = "ComposedGroup"
  /\ group.a.a # group.a.b
  /\ group.a.b # group.b
  /\ Len(text_encoder.buf) >= 6

\* C3 (namespace transparency): collecting WithNamespace(P, G) writes the same
\* sequence of help, type and value records as collecting G, each name being
\* the name G writes wrapped in P exactly once; helps, types, labels, values
\* and order are unchanged.
NamespaceTransparency ==
  (Collected /\ group.kind = "WithNamespace") =>
     /\ text_encoder.buf = Namespaced(group.namespace, Render(group.inner, last.vals))
     /\ \A i \in 1..Len(text_encoder.buf) :
          Len(NamespacesOf(text_encoder.buf[i].name)) =
            1 + Len(NamespacesOf(Render(group.inner, last.vals)[i].name))

NamespaceTransparencyWitness ==
  /\ Collected
  /\ group.kind = "WithNamespace"
  /\ group.inner.kind = "ComposedGroup"
  /\ \E i \in 1..Len(text_encoder.buf) : text_encoder.buf[i].value > 0

ForwardingCommutes ==
  last.op = "metric" =>
     LET m == last.arg
         n == WithNamespace(last.prefix, m.name)
         e == [kind |-> "TextEncoder", buf |-> last.before]
         direct == TextEncoder_collect_into(
                     m, last.vals, n, TextEncoder_write_type(m.mtype, n, e))
     IN  /\ text_encoder.buf = last.alt
         /\ text_encoder = direct
         /\ last.alt = direct.buf

ForwardingCommutesWitness ==
  /\ last.op = "metric"
  /\ last.arg = errors
  /\ last.before # <<>>
  /\ Len(text_encoder.buf) = Len(last.before) + 1 + NumSeries
  /\ text_encoder.buf = last.alt

\* the output of the latest pass
PassOutput == IF last.op = "write_help" THEN last.before ELSE text_encoder.buf

\* C7 (reference transparency): collecting &G writes exactly what collecting
\* G writes, and write_help on &mut E appends to E exactly the one help
\* record that write_help on E appends.
ReferenceTransparency ==
  /\ (last.op \in {"collect", "write_help"} /\ group.kind = "Ref") =>
        PassOutput = Render(group.inner, last.vals)
  /\ last.op = "write_help" =>
        text_encoder =
          TextEncoder_write_help([kind |-> "TextEncoder", buf |-> last.before],
                                 last.arg.name, last.arg.help)

ReferenceTransparencyWitness ==
  /\ last.op = "write_help"
  /\ group.kind = "Ref"
  /\ group.inner.kind # "Ref"
  /\ Len(last.before) > 0
  /\ Len(text_encoder.buf) = Len(last.before) + 1

\* C8 (type-line uniqueness): in one pass every occurrence of a metric with N
\* label combinations writes one help record and one type record for its
\* name, both before its value records, followed by exactly N value records;
\* a metric occurring once in the tree thus has exactly one of each, also
\* under namespaces.
TypeLineUniqueness ==
  Collected =>
    \A m \in Leaves :
      LET buf == text_encoder.buf
          k == Occurrences(m, group)
      IN  /\ Count(buf, "help", m.name) = k
          /\ Count(buf, "type", m.name) = k
          /\ Count(buf, "value", m.name) = k * m.series
          /\ \A i \in 1..Len(buf) :
               (buf[i].op = "help" /\ BaseName(buf[i].name) = m.name) =>
                  /\ i + 1 + m.series <= Len(buf)
                  /\ buf[i + 1].op = "type"
                  /\ buf[i + 1].name = buf[i].name
                  /\ \A s \in 1..m.series :
                       /\ buf[i + 1 + s].op = "value"
                       /\ buf[i + 1 + s].name = buf[i].name
                       /\ buf[i + 1 + s].label = s

TypeLineUniquenessWitness ==
  /\ Collected
  /\ Occurrences(errors, group) = 1
  /\ Count(text_encoder.buf, "type", errors.name) = 1
  /\ Count(text_encoder.buf, "value", errors.name) = NumSeries
  /\ \E i \in 1..Len(text_encoder.buf) :
       /\ BaseName(text_encoder.buf[i].name) = errors.name
       /\ Len(NamespacesOf(text_encoder.buf[i].name)) >= 1

NamespaceScoping ==
  /\ last.op \in {"collect", "write_help"} =>
       PassOutput = ExpectedWrites(LeafPaths(group, <<>>), last.vals)
  /\ last.op = "write_help" =>
       /\ SubSeq(text_encoder.buf, 1, Len(last.before)) = last.before
       /\ Len(text_encoder.buf) = Len(last.before) + 1
       /\ NamespacesOf(text_encoder.buf[Len(text_encoder.buf)].name) = <<>>

NamespaceScopingWitness ==
  /\ last.op = "write_help"
  /\ group.kind = "ComposedGroup"
  /\ group.a.kind = "WithNamespace"
  /\ group.b.kind = "Metric"
  /\ NamespacesOf(last.before[1].name) = <<group.a.namespace>>
  /\ NamespacesOf(last.before[Len(last.before)].name) = <<>>

====
